---- MODULE Spec2Model ----
(***************************************************************************)
(* Verification model of the Srh search service:                           *)
(*   - the tiered rate limiter and its Express middlewares                 *)
(*     (middleware/rateLimiter.js),                                        *)
(*   - the HTTP middleware chain of the server (server.js, routes/*.js),   *)
(*   - the aggregated search searchAdvanced (services/searchService.js).   *)
(* Times are in seconds, msBeforeNext in milliseconds.                     *)
(***************************************************************************)
EXTENDS Integers, Sequences, FiniteSets, TLC

VARIABLES now, counters, res, run, focus, reqs, admitted, agg

limiterVars == <<now, counters, res, run, focus>>
serverVars == <<reqs, admitted>>
searchVars == <<agg>>
vars == <<now, counters, res, run, focus, reqs, admitted, agg>>

(***************************************************************************)
(* Bounds of the model                                                     *)
(***************************************************************************)
\* the clock stops after MaxSpan block durations plus one window
MaxSpan == 1
\* options.limit of an aggregated search ranges over 1..MaxLimit
MaxLimit == 4
\* a source finds at most MaxFound results
MaxFound == 2
\* the record store holds MaxRecords records
MaxRecords == 3
\* match scores and thresholds range over 0..MaxScore (0 = exact match)
MaxScore == 3

Keys == {"k1"}
Tiers == {"api", "search", "dataModification", "import"}
NoTime == -1

Min(a, b) == IF a < b THEN a ELSE b

\* no earlier run of the same search to compare with
NoPrev == [calls |-> <<>>, result |-> <<>>]

\* no aggregated search has been started
NoSearch ==
  [pc |-> "idle", sources |-> <<>>, limit |-> 0, calls |-> <<>>,
   settled |-> <<>>, unique |-> <<>>, result |-> <<>>, nth |-> 1,
   prev |-> NoPrev]

(***************************************************************************)
(* Tier configuration: new RateLimiterMemory({points, duration,            *)
(* blockDuration}) of the four limiters.                                   *)
(***************************************************************************)
Points ==
  [api |-> 100, search |-> 30, dataModification |-> 10, import |-> 3]

Duration ==
  [api |-> 60, search |-> 60, dataModification |-> 60, import |-> 3600]

\* search limiter configured with the block duration of the api limiter
BlockDuration_CopiedFromApi ==
  [api |-> 60, search |-> 60, dataModification |-> 300, import |-> 3600]

\* search limiter configured with a block shorter than its window
BlockDuration_ShorterThanWindow ==
  [api |-> 60, search |-> 30, dataModification |-> 300, import |-> 3600]

\* api limiter configured with a block shorter than its window
BlockDuration_ApiShorterThanWindow ==
  [api |-> 30, search |-> 120, dataModification |-> 300, import |-> 3600]

BlockDuration ==
  [api |-> 60, search |-> 120, dataModification |-> 300, import |-> 3600]

(***************************************************************************)
(* The counter of one (tier, key) pair and Consume, as section 4.5 of the  *)
(* specification describes the limiter object the middlewares call.        *)
(***************************************************************************)
FreshCounter == [consumed |-> 0, windowStart |-> NoTime, blockedUntil |-> NoTime]

\* the window of length windowDuration has elapsed since windowStart
\* (a counter that was never consumed has no window yet)
WindowElapsed(c, t, at) ==
  c.windowStart = NoTime \/ at - c.windowStart >= Duration[t]

\* step 1 of Consume: reset consumed and windowStart when the window elapsed
CurrentWindow(c, t, at) ==
  IF WindowElapsed(c, t, at)
  THEN [c EXCEPT !.consumed = 0, !.windowStart = at]
  ELSE c

IsBlocked(c, at) == c.blockedUntil # NoTime /\ at < c.blockedUntil

\* Consume(tier, key) with a cost of pts points at time `at`; the result is
\* the new counter and the RateLimiterRes the promise settles with
\* (resolved when allowed, rejected otherwise).
Consume(c, t, at, pts) ==
  LET w == CurrentWindow(c, t, at) IN
  IF IsBlocked(w, at)
  THEN [counter |-> w, allowed |-> FALSE,
        remainingPoints |-> 0,
        msBeforeNext |-> 1000 * (w.blockedUntil - at)]
  ELSE LET n == w.consumed + pts IN
       IF n <= Points[t]
       THEN [counter |-> [w EXCEPT !.consumed = n], allowed |-> TRUE,
             remainingPoints |-> Points[t] - n,
             msBeforeNext |-> 1000 * (w.windowStart + Duration[t] - at)]
       ELSE [counter |-> [w EXCEPT !.consumed = n,
                                   !.blockedUntil = at + BlockDuration[t]],
             allowed |-> FALSE,
             remainingPoints |-> 0,
             msBeforeNext |-> 1000 * BlockDuration[t]]

(***************************************************************************)
(* The rate-limit middlewares                                              *)
(***************************************************************************)
\* msBeforeNext reported without the division by 1000
RoundSeconds_NoDivision(ms) == ms

\* Math.round(msBeforeNext / 1000)
RoundSeconds(ms) == (ms + 500) \div 1000

\* Math.round(msBeforeNext / 1000) || 1
RetryAfterHeader(ms) == IF RoundSeconds(ms) = 0 THEN 1 ELSE RoundSeconds(ms)

NoResponse ==
  [mw |-> "none", key |-> "none", nextCalls |-> 0, status |-> 0,
   headers |-> {}, limit |-> 0, remaining |-> 0, retryAfterHeader |-> 0,
   reset |-> 0, body |-> {}, success |-> TRUE, retryAfter |-> 0]

\* try branch: consume resolved, next() is called, nothing is written
Passed(t, k) == [NoResponse EXCEPT !.mw = t, !.key = k, !.nextCalls = 1]

\* catch branch: res.set({...}); res.status(429).json({...})
TooManyRequests(t, k, maxPoints, rl, at) ==
  [mw |-> t, key |-> k, nextCalls |-> 0, status |-> 429,
   headers |-> {"Retry-After", "X-RateLimit-Limit", "X-RateLimit-Remaining",
                "X-RateLimit-Reset"},
   limit |-> maxPoints,
   remaining |-> rl.remainingPoints,
   retryAfterHeader |-> RetryAfterHeader(rl.msBeforeNext),
   reset |-> 1000 * at + rl.msBeforeNext,
   body |-> {"success", "error", "message", "retryAfter"},
   success |-> FALSE,
   retryAfter |-> RoundSeconds(rl.msBeforeNext)]

\* history of the calls made on one counter since it last started fresh:
\* n calls, `allowed` of them allowed, all within one window of the first
\* (active); rejectAt is the time of the call that set the block and
\* afterBlock tells that the last call was made once the block had run out
FreshRun == [active |-> FALSE, n |-> 0, allowed |-> 0, rejectAt |-> NoTime,
             afterBlock |-> FALSE]

NextRun(r, c, rl, t, at) ==
  LET ab == r.rejectAt # NoTime /\ at >= r.rejectAt + BlockDuration[t]
      ok == IF rl.allowed THEN 1 ELSE 0
      sets == ~IsBlocked(CurrentWindow(c, t, at), at) /\ ~rl.allowed
      ra == IF rl.allowed THEN NoTime ELSE IF sets THEN at ELSE r.rejectAt
  IN IF WindowElapsed(c, t, at) /\ ~IsBlocked(c, at)
     THEN [active |-> TRUE, n |-> 1, allowed |-> ok, rejectAt |-> ra,
           afterBlock |-> ab]
     ELSE IF r.active /\ ~WindowElapsed(c, t, at)
     THEN [active |-> TRUE, n |-> Min(r.n + 1, Points[t] + 2),
           allowed |-> r.allowed + ok, rejectAt |-> ra, afterBlock |-> ab]
     ELSE [r EXCEPT !.active = FALSE, !.rejectAt = ra, !.afterBlock = ab]

\* the common shape of the four middlewares: consume one point for the
\* caller's key on limiter t, then next() or the 429 answer
\* a middleware that consumes no point for the request
LimitWith_NoPoint(t, k, maxPoints) ==
  LET rl == Consume(counters[t][k], t, now, 0) IN
  /\ counters' = [counters EXCEPT ![t][k] = rl.counter]
  /\ res' = IF rl.allowed THEN Passed(t, k)
            ELSE TooManyRequests(t, k, maxPoints, rl, now)
  /\ run' = [run EXCEPT ![t][k] = NextRun(run[t][k], counters[t][k], rl, t, now)]

LimitWith(t, k, maxPoints) ==
  LET rl == Consume(counters[t][k], t, now, 1) IN
  /\ counters' = [counters EXCEPT ![t][k] = rl.counter]
  /\ res' = IF rl.allowed THEN Passed(t, k)
            ELSE TooManyRequests(t, k, maxPoints, rl, now)
  /\ run' = [run EXCEPT ![t][k] = NextRun(run[t][k], counters[t][k], rl, t, now)]

rateLimiter(k) ==
  /\ "api" \in focus
  /\ LimitWith("api", k, 100)
  /\ UNCHANGED <<now, focus, serverVars, searchVars>>

\* the search middleware reporting the limit of the general middleware
searchRateLimit_CopiedLimit(k) ==
  /\ "search" \in focus
  /\ LimitWith("search", k, 100)
  /\ UNCHANGED <<now, focus, serverVars, searchVars>>

searchRateLimit(k) ==
  /\ "search" \in focus
  /\ LimitWith("search", k, 30)
  /\ UNCHANGED <<now, focus, serverVars, searchVars>>

dataModificationRateLimit(k) ==
  /\ "dataModification" \in focus
  /\ LimitWith("dataModification", k, 10)
  /\ UNCHANGED <<now, focus, serverVars, searchVars>>

\* the import middleware consuming on the data-modification limiter
importRateLimit_DataLimiter(k) ==
  /\ "import" \in focus
  /\ LimitWith("dataModification", k, 3)
  /\ UNCHANGED <<now, focus, serverVars, searchVars>>

importRateLimit(k) ==
  /\ "import" \in focus
  /\ LimitWith("import", k, 3)
  /\ UNCHANGED <<now, focus, serverVars, searchVars>>

\* the key the health check consumes on: one name stands for the keys
\* 'health_check_<ms>', of which every millisecond has its own
HealthKey == "health_check"

\* the probe made on the key of a caller
testKey_CallerKey(at) == "k1"

\* const testKey = 'health_check_' + Date.now()
testKey(at) == HealthKey

\* the counter the limiter holds for key k at time `at`: a test key made at
\* another time is another key and has no counter yet
KeyCounter(k, at) ==
  IF k = HealthKey /\ counters["api"][k].windowStart # at
  THEN FreshCounter
  ELSE counters["api"][k]

\* rateLimiterHealthCheck: consume 0 points on the api limiter for the test
\* key; 'healthy' when the promise resolves, 'unhealthy' when it rejects
rateLimiterHealthCheck ==
  LET k == testKey(now)
      rl == Consume(KeyCounter(k, now), "api", now, 0)
  IN /\ counters' = [counters EXCEPT !["api"][k] = rl.counter]
     /\ res' = [NoResponse EXCEPT !.mw = "rateLimiterHealthCheck", !.key = k,
                                  !.success = rl.allowed]
     /\ UNCHANGED <<now, run, focus, serverVars, searchVars>>

(***************************************************************************)
(* The clock, and which exported middleware the caller exercises in a run  *)
(***************************************************************************)
Workloads == {{t} : t \in Tiers}

\* the exercised tier, of several the one with the longest window
SomeTier(f) == CHOOSE t \in f : \A u \in f : Duration[t] >= Duration[u]

\* the clock advances by a sixth of the window (10 s for the 60 s tiers), by
\* one window or by one block duration of the exercised tier
TickSteps(f) ==
  {Duration[SomeTier(f)] \div 6, Duration[SomeTier(f)], BlockDuration[SomeTier(f)]}

MaxTime(f) ==
  MaxSpan * BlockDuration[SomeTier(f)] + Duration[SomeTier(f)]

Tick(d) ==
  /\ now + d <= MaxTime(focus)
  /\ now' = now + d
  /\ UNCHANGED <<counters, res, run, focus, serverVars, searchVars>>

(***************************************************************************)
(* The HTTP server: every /api request passes app.use('/api', rateLimiter) *)
(* and then the stack of its route.  Requests are handled concurrently,    *)
(* one logical task per request.                                           *)
(***************************************************************************)
Slots == {1, 2}

\* route groups: /api/search/*, POST|PUT|DELETE /api/data, POST
\* /api/data/import, and the remaining read-only /api routes
Routes == {"search", "dataMutation", "import", "read"}

Idle == [pc |-> "idle", route |-> "none", key |-> "none", consumed |-> {},
         status |-> 0]

\* the limiter middlewares mounted in front of a route: app.use('/api',
\* rateLimiter) is the only mount; the routers mount no limiter
Mounted(route) == <<"api">>

NoneAdmitted == [windowStart |-> NoTime, n |-> 0]

\* a request arrives on a free connection slot
Arrive(i, route, k) ==
  /\ reqs[i].pc \in {"idle", "done"}
  /\ reqs' = [reqs EXCEPT ![i] = [pc |-> "arrived", route |-> route, key |-> k,
                                  consumed |-> {}, status |-> 0]]
  /\ UNCHANGED <<limiterVars, admitted, searchVars>>

\* the limiter reading the counter and writing it back in separate turns: two
\* requests of one key waiting at the limiter are admitted on the same read
ApiGate_Racy(i) ==
  LET k == reqs[i].key
      rl == Consume(counters["api"][k], "api", now, 1)
      both == {j \in Slots : reqs[j].pc = "arrived" /\ reqs[j].key = k}
      a == admitted[k]
  IN /\ reqs[i].pc = "arrived"
     /\ LimitWith("api", k, 100)
     /\ reqs' = [j \in Slots |->
                   IF j \notin both THEN reqs[j]
                   ELSE IF rl.allowed
                   THEN [reqs[j] EXCEPT !.pc = "routed", !.consumed = @ \cup {"api"}]
                   ELSE [reqs[j] EXCEPT !.pc = "done", !.status = 429]]
     /\ admitted' = IF ~rl.allowed THEN admitted
                    ELSE [admitted EXCEPT ![k] =
                           IF a.windowStart = rl.counter.windowStart
                           THEN [a EXCEPT !.n = @ + Cardinality(both)]
                           ELSE [windowStart |-> rl.counter.windowStart,
                                 n |-> Cardinality(both)]]
     /\ UNCHANGED <<now, focus, searchVars>>

\* app.use('/api', rateLimiter): the request either goes on to its router or
\* is answered 429
ApiGate(i) ==
  LET k == reqs[i].key
      t == Mounted(reqs[i].route)[1]
      rl == Consume(counters[t][k], t, now, 1)
      a == admitted[k]
  IN /\ reqs[i].pc = "arrived"
     /\ LimitWith(t, k, 100)
     /\ reqs' = [reqs EXCEPT ![i] =
                   IF rl.allowed
                   THEN [@ EXCEPT !.pc = "routed", !.consumed = @ \cup {t}]
                   ELSE [@ EXCEPT !.pc = "done", !.status = 429]]
     /\ admitted' = IF ~rl.allowed THEN admitted
                    ELSE [admitted EXCEPT ![k] =
                           IF a.windowStart = rl.counter.windowStart
                           THEN [a EXCEPT !.n = @ + 1]
                           ELSE [windowStart |-> rl.counter.windowStart, n |-> 1]]
     /\ UNCHANGED <<now, focus, searchVars>>

\* the route's handler runs and calls its search or data service
Handle(i) ==
  /\ reqs[i].pc = "routed"
  /\ reqs' = [reqs EXCEPT ![i] = [@ EXCEPT !.pc = "done", !.status = 200]]
  /\ UNCHANGED <<limiterVars, admitted, searchVars>>

\* the clock of the server advances window by window
ServerTick == Tick(Duration["api"])

InitServer ==
  /\ now = 0
  /\ counters = [t \in Tiers |-> [k \in Keys |-> FreshCounter]]
  /\ res = NoResponse
  /\ run = [t \in Tiers |-> [k \in Keys |-> FreshRun]]
  /\ focus = {"api"}
  /\ reqs = [i \in Slots |-> Idle]
  /\ admitted = [k \in Keys |-> NoneAdmitted]
  /\ agg = NoSearch

NextServer ==
  \/ \E i \in Slots, r \in Routes, k \in Keys : Arrive(i, r, k)
  \/ \E i \in Slots : ApiGate(i)
  \/ \E i \in Slots : Handle(i)
  \/ ServerTick

SpecServer == InitServer /\ [][NextServer]_vars

(***************************************************************************)
(* Environment of the limiter: the clock, and which exported middleware    *)
(* the caller exercises in a run.                                          *)
(***************************************************************************)
InitLimiter ==
  /\ now = 0
  /\ counters = [t \in Tiers |-> [k \in Keys |-> FreshCounter]]
  /\ res = NoResponse
  /\ run = [t \in Tiers |-> [k \in Keys |-> FreshRun]]
  /\ focus \in Workloads
  /\ reqs = [i \in Slots |-> Idle]
  /\ admitted = [k \in Keys |-> NoneAdmitted]
  /\ agg = NoSearch

NextLimiter ==
  \/ \E k \in Keys : rateLimiter(k)
  \/ \E k \in Keys : searchRateLimit(k)
  \/ \E k \in Keys : dataModificationRateLimit(k)
  \/ \E k \in Keys : importRateLimit(k)
  \/ \E d \in TickSteps(focus) : Tick(d)

SpecLimiter == InitLimiter /\ [][NextLimiter]_vars

(***************************************************************************)
(* POST /import of the data router: importData and bulkInsertData          *)
(***************************************************************************)
MaxItems == 3

\* the arrays a caller posts: of each entry only whether it carries a title
\* and a content is kept
DataArrays == UNION {[1..n -> BOOLEAN] : n \in 0..MaxItems}

NoImport ==
  [pc |-> "idle", data |-> <<>>, i |-> 1, validData |-> <<>>, imported |-> 0,
   failed |-> 0, results |-> <<>>, stored |-> 0, status |-> 0,
   reported |-> [imported |-> 0, failed |-> 0]]

\* the route handler: 400 for a body whose data is not an array, else
\* importData is called
PostImport(isArray, data) ==
  /\ agg.pc \in {"idle", "answered"}
  /\ agg' = IF isArray
            THEN [NoImport EXCEPT !.pc = "validate", !.data = data]
            ELSE [NoImport EXCEPT !.pc = "answered", !.status = 400]
  /\ UNCHANGED <<limiterVars, serverVars>>

\* one pass of the validation loop of importData
ValidateItem ==
  /\ agg.pc = "validate"
  /\ agg.i <= Len(agg.data)
  /\ agg' = IF agg.data[agg.i]
            THEN [agg EXCEPT !.validData = Append(@, agg.i),
                             !.imported = @ + 1, !.i = @ + 1]
            ELSE [agg EXCEPT !.failed = @ + 1, !.i = @ + 1]
  /\ UNCHANGED <<limiterVars, serverVars>>

\* the loop is done: bulkInsertData is called when validData is not empty
StartInsert ==
  /\ agg.pc = "validate"
  /\ agg.i > Len(agg.data)
  /\ agg' = [agg EXCEPT !.pc = IF agg.validData # <<>> THEN "insert"
                               ELSE "return"]
  /\ UNCHANGED <<limiterVars, serverVars>>

\* one pass of the loop of bulkInsertData: runQuery inserts the entry, or
\* throws and the failure is kept in the results
InsertItem(success) ==
  /\ agg.pc = "insert"
  /\ agg' = [agg EXCEPT
               !.results = Append(@, success),
               !.stored = IF success THEN @ + 1 ELSE @,
               !.pc = IF Len(agg.results) + 1 = Len(agg.validData)
                      THEN "return" ELSE "insert"]
  /\ UNCHANGED <<limiterVars, serverVars>>

\* importData returns {imported, failed, errors} and the route answers
ReportImport ==
  /\ agg.pc = "return"
  /\ agg' = [agg EXCEPT !.pc = "answered", !.status = 200,
                        !.reported = [imported |-> agg.imported,
                                      failed |-> agg.failed]]
  /\ UNCHANGED <<limiterVars, serverVars>>

InitImport ==
  /\ now = 0
  /\ counters = [t \in Tiers |-> [k \in Keys |-> FreshCounter]]
  /\ res = NoResponse
  /\ run = [t \in Tiers |-> [k \in Keys |-> FreshRun]]
  /\ focus = {"api"}
  /\ reqs = [i \in Slots |-> Idle]
  /\ admitted = [k \in Keys |-> NoneAdmitted]
  /\ agg = NoImport

NextImport ==
  \/ /\ agg.pc \in {"idle", "answered"}
     /\ \E isArray \in BOOLEAN, data \in DataArrays : PostImport(isArray, data)
  \/ ValidateItem
  \/ StartInsert
  \/ \E success \in BOOLEAN : InsertItem(success)
  \/ ReportImport

SpecImport == InitImport /\ [][NextImport]_vars

(***************************************************************************)
(* getRateLimitStatus, asked between the requests the middlewares handle   *)
(***************************************************************************)
NoCounter == [found |-> FALSE, remainingPoints |-> 0, msBeforeNext |-> 0]

\* limiter.get(key): null when the key has no counter (never consumed, or
\* its window has run out and it is not blocked), else the RateLimiterRes
\* of the counter as it stands; nothing is consumed
limiterGet(c, t, at) ==
  IF c.windowStart = NoTime THEN NoCounter
  ELSE IF IsBlocked(c, at)
  THEN [found |-> TRUE, remainingPoints |-> 0,
        msBeforeNext |-> 1000 * (c.blockedUntil - at)]
  ELSE IF WindowElapsed(c, t, at) THEN NoCounter
  ELSE [found |-> TRUE,
        remainingPoints |-> IF c.consumed < Points[t]
                            THEN Points[t] - c.consumed ELSE 0,
        msBeforeNext |-> 1000 * (c.windowStart + Duration[t] - at)]

\* a || b on numbers: 0 is falsy
Or(a, b) == IF a # 0 THEN a ELSE b

\* the switch on limiterType: the limiter asked and the maxPoints reported
\* (any other value of limiterType selects the api limiter)
LimiterTypes == {"api", "search", "dataModification", "import", "other"}

Selected(limiterType) ==
  IF limiterType = "search" THEN [tier |-> "search", maxPoints |-> 30]
  ELSE IF limiterType = "dataModification"
  THEN [tier |-> "dataModification", maxPoints |-> 10]
  ELSE IF limiterType = "import" THEN [tier |-> "import", maxPoints |-> 3]
  ELSE [tier |-> "api", maxPoints |-> 100]

NoStatus ==
  [pc |-> "none", key |-> "none", tier |-> "none", limit |-> 0,
   remaining |-> 0, reset |-> NoTime, blocked |-> FALSE]

\* getRateLimitStatus(key, limiterType); RateLimiterRes has no `duration`,
\* so msBeforeNext > undefined is false
getRateLimitStatus(k, limiterType) ==
  LET sel == Selected(limiterType)
      resRateLimiter == limiterGet(counters[sel.tier][k], sel.tier, now)
  IN /\ agg = NoStatus
     /\ agg' = IF resRateLimiter.found
               THEN [pc |-> "answered", key |-> k, tier |-> sel.tier,
                     limit |-> sel.maxPoints,
                     remaining |-> Or(resRateLimiter.remainingPoints,
                                      sel.maxPoints),
                     reset |-> now + RoundSeconds(resRateLimiter.msBeforeNext),
                     blocked |-> FALSE]
               ELSE [pc |-> "answered", key |-> k, tier |-> sel.tier,
                     limit |-> sel.maxPoints, remaining |-> sel.maxPoints,
                     reset |-> NoTime, blocked |-> FALSE]
     /\ UNCHANGED <<limiterVars, serverVars>>

\* the caller has read the status
StatusRead ==
  /\ agg # NoStatus
  /\ agg' = NoStatus
  /\ UNCHANGED <<limiterVars, serverVars>>

InitStatus ==
  /\ now = 0
  /\ counters = [t \in Tiers |-> [k \in Keys |-> FreshCounter]]
  /\ res = NoResponse
  /\ run = [t \in Tiers |-> [k \in Keys |-> FreshRun]]
  /\ focus \in Workloads
  /\ reqs = [i \in Slots |-> Idle]
  /\ admitted = [k \in Keys |-> NoneAdmitted]
  /\ agg = NoStatus

NextStatus ==
  \/ \E k \in Keys : agg = NoStatus /\ rateLimiter(k)
  \/ \E k \in Keys : agg = NoStatus /\ searchRateLimit(k)
  \/ \E k \in Keys : agg = NoStatus /\ dataModificationRateLimit(k)
  \/ \E k \in Keys : agg = NoStatus /\ importRateLimit(k)
  \/ \E d \in TickSteps(focus) : agg = NoStatus /\ Tick(d)
  \/ \E k \in Keys, limiterType \in focus \cup {"other"} :
       getRateLimitStatus(k, limiterType)
  \/ StatusRead

SpecStatus == InitStatus /\ [][NextStatus]_vars

(***************************************************************************)
(* The limiter with a log of the calls it let through: for each key the    *)
(* number of allowed calls made at now - windowDuration, at now - half a   *)
(* window and at now, i.e. within the interval of length windowDuration    *)
(* that ends now.                                                          *)
(***************************************************************************)
NoneLogged == <<0, 0, 0>>

Half(t) == Duration[t] \div 2

\* the log after the clock has moved on by d
Shifted(log, d, t) ==
  IF d = Half(t) THEN <<log[2], log[3], 0>>
  ELSE IF d = Duration[t] THEN <<log[3], 0, 0>>
  ELSE NoneLogged

\* the log after a call made now that was let through (ok) or rejected
Logged(log, t, ok) ==
  IF ok THEN [log EXCEPT ![3] = Min(@ + 1, 2 * Points[t] + 1)] ELSE log

\* the middleware of tier t handles a request of key k
Limit(t, k) ==
  /\ t \in focus
  /\ LimitWith(t, k, Points[t])
  /\ admitted' = [admitted EXCEPT ![k] = Logged(@, t, res'.nextCalls = 1)]
  /\ UNCHANGED <<now, focus, reqs, searchVars>>

\* the clock advances by half a window, by a window or by two and a half
\* windows of the exercised tier
WindowTick(d) ==
  /\ now + d <= MaxTime(focus)
  /\ now' = now + d
  /\ admitted' = [k \in Keys |-> Shifted(admitted[k], d, SomeTier(focus))]
  /\ UNCHANGED <<counters, res, run, focus, reqs, searchVars>>

\* the tiers exercised with the log: the three with the smaller capacities
LoggedWorkloads == {{"search"}, {"dataModification"}, {"import"}}

InitWindow ==
  /\ now = 0
  /\ counters = [t \in Tiers |-> [k \in Keys |-> FreshCounter]]
  /\ res = NoResponse
  /\ run = [t \in Tiers |-> [k \in Keys |-> FreshRun]]
  /\ focus \in LoggedWorkloads
  /\ reqs = [i \in Slots |-> Idle]
  /\ admitted = [k \in Keys |-> NoneLogged]
  /\ agg = NoSearch

NextWindow ==
  \/ \E t \in Tiers, k \in Keys : Limit(t, k)
  \/ \E d \in {Half(SomeTier(focus)), Duration[SomeTier(focus)],
               5 * Half(SomeTier(focus))} : WindowTick(d)

SpecWindow == InitWindow /\ [][NextWindow]_vars

(***************************************************************************)
(* The search router: POST /web, /local, /files and /advanced, each with   *)
(* validateSearchQuery in front of its handler                             *)
(***************************************************************************)
Endpoints == {"web", "local", "files", "advanced"}

\* the service function the handler of an endpoint calls
ServiceOf ==
  [web |-> "searchWeb", local |-> "searchLocal", files |-> "searchFiles",
   advanced |-> "searchAdvanced"]

\* a string: `lead` white-space characters, then `body` characters that
\* begin and end with a non-space one, then `trail` white-space characters
Str(lead, body, trail) ==
  [kind |-> "string", num |-> 0, lead |-> lead, body |-> body, trail |-> trail]

\* the values of req.body.query: absent, a number (0 or 5), or a string
\* with a body of up to 501 characters
Queries ==
  {[kind |-> "undefined", num |-> 0, lead |-> 0, body |-> 0, trail |-> 0]}
    \cup {[kind |-> "number", num |-> n, lead |-> 0, body |-> 0, trail |-> 0] :
            n \in {0, 5}}
    \cup {Str(l, b, t) : l \in 0..1, b \in {0, 1, 499, 500, 501}, t \in 0..1}

\* query.length
Length(q) == q.lead + q.body + q.trail

\* !query: undefined, 0 and the empty string are falsy
Not(q) ==
  \/ q.kind = "undefined"
  \/ q.kind = "number" /\ q.num = 0
  \/ q.kind = "string" /\ Length(q) = 0

\* the query passed on as it was sent
Trim_Nothing(q) == q

\* query.trim(): the white space at both ends removed (all of it when the
\* string holds nothing else)
Trim(q) == [q EXCEPT !.lead = 0, !.trail = 0]

NoCall == [fn |-> "none", query |-> Str(0, 0, 0)]

IdleSearch ==
  [pc |-> "idle", route |-> "none", sent |-> Str(0, 0, 0),
   query |-> Str(0, 0, 0), status |-> 0, service |-> NoCall]

\* a POST request arrives at the search router with `query` in its body
Post(i, endpoint, q) ==
  /\ reqs[i].pc \in {"idle", "done"}
  /\ reqs' = [reqs EXCEPT ![i] = [pc |-> "validate", route |-> endpoint,
                                  sent |-> q, query |-> q, status |-> 0,
                                  service |-> NoCall]]
  /\ UNCHANGED <<limiterVars, admitted, searchVars>>

\* validateSearchQuery: 400 for a missing, non-string, blank or too long
\* query, else the trimmed query is stored in req.body and next() is called
validateSearchQuery(i) ==
  LET query == reqs[i].query IN
  /\ reqs[i].pc = "validate"
  /\ reqs' = [reqs EXCEPT ![i] =
       IF Not(query) \/ query.kind # "string" \/ Length(Trim(query)) = 0
       THEN [@ EXCEPT !.pc = "done", !.status = 400]
       ELSE IF Length(query) > 500
       THEN [@ EXCEPT !.pc = "done", !.status = 400]
       ELSE [@ EXCEPT !.pc = "handler", !.query = Trim(query)]]
  /\ UNCHANGED <<limiterVars, admitted, searchVars>>

\* the handler of the route reads req.body.query and calls its service
\* function; it answers 200, or 500 when the service throws
SearchHandler(i, status) ==
  /\ reqs[i].pc = "handler"
  /\ reqs' = [reqs EXCEPT ![i] =
       [@ EXCEPT !.pc = "done", !.status = status,
                 !.service = [fn |-> ServiceOf[reqs[i].route],
                              query |-> reqs[i].query]]]
  /\ UNCHANGED <<limiterVars, admitted, searchVars>>

InitValidate ==
  /\ now = 0
  /\ counters = [t \in Tiers |-> [k \in Keys |-> FreshCounter]]
  /\ res = NoResponse
  /\ run = [t \in Tiers |-> [k \in Keys |-> FreshRun]]
  /\ focus = {"api"}
  /\ reqs = [i \in Slots |-> IdleSearch]
  /\ admitted = [k \in Keys |-> NoneAdmitted]
  /\ agg = NoSearch

NextValidate ==
  \/ \E i \in Slots, e \in Endpoints, q \in Queries : Post(i, e, q)
  \/ \E i \in Slots : validateSearchQuery(i)
  \/ \E i \in Slots, status \in {200, 500} : SearchHandler(i, status)

SpecValidate == InitValidate /\ [][NextValidate]_vars

(***************************************************************************)
(* The local search: searchLocal(query, {limit, threshold}) over the       *)
(* records of the store, with the fuzzy matcher of section 4.1             *)
(***************************************************************************)
\* the store for a fixed query: the best score of each record
Corpora == [1..MaxRecords -> 0..MaxScore]

\* the records whose best score is within the threshold
Hits(corpus, threshold) == {i \in DOMAIN corpus : corpus[i] <= threshold}

\* the records of S by ascending score, ties in the order of the store
RECURSIVE Ascending(_, _)
Ascending(corpus, S) ==
  IF S = {} THEN <<>>
  ELSE LET m == CHOOSE i \in S :
                  \A j \in S : corpus[i] < corpus[j]
                                \/ (corpus[i] = corpus[j] /\ i <= j)
       IN <<m>> \o Ascending(corpus, S \ {m})

\* fuse.search(query) with the given threshold and includeScore
fuseSearch(corpus, threshold) ==
  LET order == Ascending(corpus, Hits(corpus, threshold)) IN
  [k \in 1..Len(order) |-> [item |-> order[k], score |-> corpus[order[k]]]]

\* the last `limit` results kept: .slice(-limit)
Limited_FromEnd(results, limit) ==
  SubSeq(results, Len(results) - Min(limit, Len(results)) + 1, Len(results))

\* .slice(0, limit) on the mapped results
Limited(results, limit) == SubSeq(results, 1, Min(limit, Len(results)))

\* searchLocal with fuzzy matching: every match with its score, cut to limit
searchLocal(corpus, threshold, limit) ==
  Limited([k \in 1..Len(fuseSearch(corpus, threshold)) |->
             [id |-> fuseSearch(corpus, threshold)[k].item,
              score |-> fuseSearch(corpus, threshold)[k].score,
              src |-> "local"]],
          limit)

NotRun == <<[id |-> 0, score |-> 0, src |-> "none"]>>

\* the store is filled and the caller fixes the limit of its searches
LoadStore(corpus, limit) ==
  /\ agg.pc = "idle"
  /\ agg' = [pc |-> "loaded", corpus |-> corpus, limit |-> limit,
             found |-> [t \in 0..MaxScore |-> NotRun]]
  /\ UNCHANGED <<limiterVars, serverVars>>

\* the caller searches with threshold t
SearchLocalAt(t) ==
  /\ agg.pc = "loaded"
  /\ agg' = [agg EXCEPT !.found[t] = searchLocal(agg.corpus, t, agg.limit)]
  /\ UNCHANGED <<limiterVars, serverVars>>

NextLocal ==
  \/ \E c \in Corpora, limit \in 1..MaxRecords : LoadStore(c, limit)
  \/ \E t \in 0..MaxScore : SearchLocalAt(t)

InitLocal ==
  /\ now = 0
  /\ counters = [t \in Tiers |-> [k \in Keys |-> FreshCounter]]
  /\ res = NoResponse
  /\ run = [t \in Tiers |-> [k \in Keys |-> FreshRun]]
  /\ focus = {"api"}
  /\ reqs = [i \in Slots |-> Idle]
  /\ admitted = [k \in Keys |-> NoneAdmitted]
  /\ agg = NoSearch

SpecLocal == InitLocal /\ [][NextLocal]_vars

(***************************************************************************)
(* The file search: searchFiles(query, searchPath, {limit}) walking a      *)
(* directory tree                                                          *)
(***************************************************************************)
\* the tree under searchPath: fs.readdir of each directory, in its order
Root == "r"

Entries == [r |-> <<"f1", "d1", "f4">>, d1 |-> <<"f2", "f3">>]

Dirs == {"d1"}

Files == {"f1", "f2", "f3", "f4"}

\* the directory that lists an entry
Parent == [f1 |-> "r", d1 |-> "r", f4 |-> "r", f2 |-> "d1", f3 |-> "d1"]

\* what a file is for the query: its name contains the query or not, its
\* content holds `hits` matches, fs.readFile succeeds or throws, fs.stat
\* succeeds or throws (a file removed since readdir can be neither read nor
\* inspected)
FileKinds ==
  {k \in [name : BOOLEAN, hits : 0..2, readable : BOOLEAN, statable : BOOLEAN] :
     /\ (~k.statable => ~k.readable)
     /\ (k.name => k.hits <= 1)
     /\ (~k.readable => k.hits = 1)}

\* matches of a file: the count of the regular expression in its content, 0
\* when reading it threw
MatchesOf(k) == IF k.readable THEN k.hits ELSE 0

\* the snippet: content, or the placeholder set in the catch of readFile
SnippetOf(k) == IF k.readable THEN "content" ELSE "placeholder"

\* entry.name includes the query || matches > 0
Included(k) == k.name \/ MatchesOf(k) > 0

FileResult(f, k) ==
  [title |-> f, name |-> k.name, matches |-> MatchesOf(k),
   snippet |-> SnippetOf(k)]

\* relevance without the bonus for a matching name
FileRelevance_NoNameBonus(x) == x.matches

\* a.matches + (a.title includes the query ? 10 : 0)
FileRelevance(x) == x.matches + (IF x.name THEN 10 ELSE 0)

\* results.sort((a, b) => bRelevance - aRelevance): a consistent order, so
\* the stable sort places each result behind those that are not less
\* relevant
RECURSIVE SortByRelevance(_)
SortByRelevance(list) ==
  IF list = <<>> THEN <<>>
  ELSE LET sorted == SortByRelevance(SubSeq(list, 1, Len(list) - 1))
           x == list[Len(list)]
           before == {i \in 1..Len(sorted) :
                        \A j \in 1..i : FileRelevance(sorted[j]) >= FileRelevance(x)}
           n == Cardinality(before)
       IN SubSeq(sorted, 1, n) \o <<x>> \o SubSeq(sorted, n + 1, Len(sorted))

\* results.slice(0, limit) of searchFiles
FirstOf(list, limit) == SubSeq(list, 1, Min(limit, Len(list)))

NoWalk ==
  [pc |-> "idle", kinds |-> <<>>, listable |-> TRUE, limit |-> 0,
   stack |-> <<>>, results |-> <<>>, examined |-> <<>>, late |-> FALSE,
   returned |-> <<>>]

\* searchFiles is called: results = [], searchInDirectory(searchPath)
StartWalk(kinds, listable, limit) ==
  /\ agg.pc = "idle"
  /\ agg' = [pc |-> "walk", kinds |-> kinds, listable |-> listable,
             limit |-> limit, stack |-> <<[dir |-> Root, idx |-> 1]>>,
             results |-> <<>>, examined |-> <<>>, late |-> FALSE,
             returned |-> <<>>]
  /\ UNCHANGED <<limiterVars, serverVars>>

Top == agg.stack[Len(agg.stack)]

AtEntry ==
  /\ agg.pc = "walk"
  /\ agg.stack # <<>>
  /\ Top.idx <= Len(Entries[Top.dir])

Entry == Entries[Top.dir][Top.idx]

\* if (results.length >= limit) break; else the next entry of the loop
Advance(frame, results) ==
  [frame EXCEPT !.idx = IF Len(results) >= agg.limit
                        THEN Len(Entries[frame.dir]) + 1
                        ELSE frame.idx + 1]

\* the exception leaves the loop for the catch of searchInDirectory
Thrown(frame) == [frame EXCEPT !.idx = Len(Entries[frame.dir]) + 1]

WithTop(frame) == SubSeq(agg.stack, 1, Len(agg.stack) - 1) \o <<frame>>

Examine(e) ==
  [agg EXCEPT !.examined = Append(@, e),
              !.late = @ \/ Len(agg.results) >= agg.limit]

\* one turn of the loop on a file: read it, count the matches, and push a
\* result when the name or the content matches; fs.stat stands outside the
\* try of readFile
VisitFile ==
  /\ AtEntry
  /\ Entry \in Files
  /\ LET k == agg.kinds[Entry]
         seen == Examine(Entry)
     IN agg' =
          IF ~Included(k)
          THEN [seen EXCEPT !.stack = WithTop(Advance(Top, agg.results))]
          ELSE IF ~k.statable
          THEN [seen EXCEPT !.stack = WithTop(Thrown(Top))]
          ELSE LET results == Append(agg.results, FileResult(Entry, k)) IN
               [seen EXCEPT !.results = results,
                            !.stack = WithTop(Advance(Top, results))]
  /\ UNCHANGED <<limiterVars, serverVars>>

\* one turn of the loop on a directory: await searchInDirectory(fullPath);
\* a readdir that throws is caught in the call and the loop goes on
EnterDirectory ==
  /\ AtEntry
  /\ Entry \in Dirs
  /\ LET seen == Examine(Entry) IN
     agg' = IF agg.listable
            THEN [seen EXCEPT !.stack = Append(@, [dir |-> Entry, idx |-> 1])]
            ELSE [seen EXCEPT !.stack = WithTop(Advance(Top, agg.results))]
  /\ UNCHANGED <<limiterVars, serverVars>>

\* searchInDirectory returns to the loop that called it
LeaveDirectory ==
  /\ agg.pc = "walk"
  /\ Len(agg.stack) > 1
  /\ Top.idx > Len(Entries[Top.dir])
  /\ LET below == SubSeq(agg.stack, 1, Len(agg.stack) - 1)
         caller == below[Len(below)]
     IN agg' = [agg EXCEPT !.stack =
                  SubSeq(below, 1, Len(below) - 1)
                    \o <<Advance(caller, agg.results)>>]
  /\ UNCHANGED <<limiterVars, serverVars>>

\* the walk is over: sort by relevance and return results.slice(0, limit)
FinishWalk ==
  /\ agg.pc = "walk"
  /\ Len(agg.stack) = 1
  /\ Top.idx > Len(Entries[Top.dir])
  /\ agg' = [agg EXCEPT !.pc = "returned", !.stack = <<>>,
                        !.returned = FirstOf(SortByRelevance(agg.results),
                                             agg.limit)]
  /\ UNCHANGED <<limiterVars, serverVars>>

InitFiles ==
  /\ now = 0
  /\ counters = [t \in Tiers |-> [k \in Keys |-> FreshCounter]]
  /\ res = NoResponse
  /\ run = [t \in Tiers |-> [k \in Keys |-> FreshRun]]
  /\ focus = {"api"}
  /\ reqs = [i \in Slots |-> Idle]
  /\ admitted = [k \in Keys |-> NoneAdmitted]
  /\ agg = NoWalk

NextFiles ==
  \/ /\ agg.pc = "idle"
     /\ \E kinds \in [Files -> FileKinds], listable \in BOOLEAN,
           limit \in 1..MaxLimit : StartWalk(kinds, listable, limit)
  \/ VisitFile
  \/ EnterDirectory
  \/ LeaveDirectory
  \/ FinishWalk

SpecFiles == InitFiles /\ [][NextFiles]_vars

(***************************************************************************)
(* GET /suggestions of the search router                                   *)
(***************************************************************************)

\* the values of req.query.q as the query string parser of Express gives
\* them: absent, a string of `len` characters, an array of `len` strings
\* (?q=a&q=b) or an object (?q[x]=a), which has no length
Param(kind, len) == [kind |-> kind, len |-> len]

Params ==
  {Param("undefined", 0), Param("object", 0)}
    \cup {Param(k, n) : k \in {"string", "array"}, n \in 0..3}

\* only a missing or empty q is turned away
TooShort_OnlyMissing(q) ==
  q.kind = "undefined" \/ (q.kind = "string" /\ q.len = 0)

\* !q || q.length < 2: undefined and '' are falsy; the length of an object
\* is undefined, and undefined < 2 is false
TooShort(q) ==
  \/ q.kind = "undefined"
  \/ q.kind = "string" /\ q.len = 0
  \/ q.kind \in {"string", "array"} /\ q.len < 2

NoSource == [fn |-> "none", q |-> Param("undefined", 0)]

IdleSuggest ==
  [pc |-> "idle", q |-> Param("undefined", 0), status |-> 0,
   suggestions |-> 0, service |-> NoSource]

\* a GET request for /suggestions arrives with `q` in its query string
Get(i, q) ==
  /\ reqs[i].pc \in {"idle", "done"}
  /\ reqs' = [reqs EXCEPT ![i] = [IdleSuggest EXCEPT !.pc = "handler", !.q = q]]
  /\ UNCHANGED <<limiterVars, admitted, searchVars>>

\* the handler: an empty list for a q that is too short, else the titles
\* searchLocal returns (`found` of them), or 500 when searchLocal throws
Suggestions(i, found, throws) ==
  LET q == reqs[i].q IN
  /\ reqs[i].pc = "handler"
  /\ reqs' = [reqs EXCEPT ![i] =
       IF TooShort(q)
       THEN [@ EXCEPT !.pc = "done", !.status = 200, !.suggestions = 0]
       ELSE [@ EXCEPT !.pc = "done",
                      !.status = IF throws THEN 500 ELSE 200,
                      !.suggestions = IF throws THEN 0 ELSE found,
                      !.service = [fn |-> "searchLocal", q |-> q]]]
  /\ UNCHANGED <<limiterVars, admitted, searchVars>>

InitSuggest ==
  /\ now = 0
  /\ counters = [t \in Tiers |-> [k \in Keys |-> FreshCounter]]
  /\ res = NoResponse
  /\ run = [t \in Tiers |-> [k \in Keys |-> FreshRun]]
  /\ focus = {"api"}
  /\ reqs = [i \in Slots |-> IdleSuggest]
  /\ admitted = [k \in Keys |-> NoneAdmitted]
  /\ agg = NoSearch

NextSuggest ==
  \/ \E i \in Slots, q \in Params : Get(i, q)
  \/ \E i \in Slots, found \in 0..MaxFound, throws \in BOOLEAN :
       Suggestions(i, found, throws)

SpecSuggest == InitSuggest /\ [][NextSuggest]_vars

(***************************************************************************)
(* The general limiter with a caller and the health check on it            *)
(***************************************************************************)
InitHealth ==
  /\ now = 0
  /\ counters = [t \in Tiers |-> [k \in Keys \cup {HealthKey} |-> FreshCounter]]
  /\ res = NoResponse
  /\ run = [t \in Tiers |-> [k \in Keys |-> FreshRun]]
  /\ focus = {"api"}
  /\ reqs = [i \in Slots |-> Idle]
  /\ admitted = [k \in Keys |-> NoneAdmitted]
  /\ agg = NoSearch

NextHealth ==
  \/ \E k \in Keys : rateLimiter(k)
  \/ rateLimiterHealthCheck
  \/ \E d \in TickSteps(focus) : Tick(d)

SpecHealth == InitHealth /\ [][NextHealth]_vars

(***************************************************************************)
(* Two callers on the data-modification and the import limiter             *)
(***************************************************************************)
\* the keys (req.ip) of two callers
Callers == {"k1", "k2"}

\* both callers import; the first one also modifies data
Modifiers == {"k1"}

InitCallers ==
  /\ now = 0
  /\ counters = [t \in Tiers |-> [k \in Callers |-> FreshCounter]]
  /\ res = NoResponse
  /\ run = [t \in Tiers |-> [k \in Callers |-> FreshRun]]
  /\ focus = {"dataModification", "import"}
  /\ reqs = [i \in Slots |-> Idle]
  /\ admitted = [k \in Keys |-> NoneAdmitted]
  /\ agg = NoSearch

\* the clock of the callers advances by whole import windows
CallersTick == Tick(Duration["import"])

NextCallers ==
  \/ \E k \in Modifiers : dataModificationRateLimit(k)
  \/ \E k \in Callers : importRateLimit(k)
  \/ CallersTick

SpecCallers == InitCallers /\ [][NextCallers]_vars

(***************************************************************************)
(* The aggregated search: searchAdvanced(query, sources, options)          *)
(***************************************************************************)
\* an absent (undefined) field of a result
Absent == NoTime

Sources == {"web", "local", "files"}

\* a value is truthy in `a.score && b.score`: defined and not 0
Truthy(x) == x # Absent /\ x # 0

\* searchWeb: the two mock results; they carry title, url, snippet and source
WebItem(n) ==
  [title |-> IF n = 1 THEN "results for q" ELSE "q - Wikipedia",
   content |-> "", score |-> Absent, matches |-> Absent, src |-> "web"]

\* mockResults.slice(0, limit)
searchWeb(limit) == [n \in 1..Min(limit, 2) |-> WebItem(n)]

\* the results searchLocal can return: stored records (title, content) with
\* the score of the fuzzy match, 0 for a perfect match
LocalItems ==
  [title : {"a", "b"}, content : {"x", "y"}, score : 0..2,
   matches : {Absent}, src : {"local"}]

\* the results searchFiles can return: file name as title and the number of
\* matches in the content; a file is listed only if its name contains the
\* query (the name "a" does, "c" does not) or it has matches
NameMatches(title) == title = "a"

FileItems ==
  {f \in [title : {"a", "c"}, content : {""}, score : {Absent},
          matches : 0..2, src : {"files"}] :
     NameMatches(f.title) \/ f.matches > 0}

\* aRelevance of the sort in searchFiles
Relevance(f) == f.matches + (IF NameMatches(f.title) THEN 10 ELSE 0)

SeqsUpTo(S, n) == UNION {[1..m -> S] : m \in 0..n}

\* searchLocal(query, {limit}): fuse.search orders by ascending score, then
\* .slice(0, limit)
LocalLists(limit) ==
  {l \in SeqsUpTo(LocalItems, Min(limit, MaxFound)) :
     \A i \in 1..Len(l) - 1 : l[i].score <= l[i + 1].score}

\* searchFiles(query, path, {limit}): sorted by descending relevance, then
\* .slice(0, limit)
FileLists(limit) ==
  {l \in SeqsUpTo(FileItems, Min(limit, MaxFound)) :
     \A i \in 1..Len(l) - 1 : Relevance(l[i]) >= Relevance(l[i + 1])}

SourceLists(s, limit) ==
  CASE s = "web" -> {searchWeb(limit)}
    [] s = "local" -> LocalLists(limit)
    [] s = "files" -> FileLists(limit)

\* the lists each source can return, by the limit it is called with
ListsByLimit ==
  [s \in Sources |-> [n \in 1..MaxLimit |-> SourceLists(s, n)]]

\* the share rounded down: Math.floor(limit / sources.length)
PerSource_Floor(limit, sources) == limit \div Len(sources)

\* Math.ceil(limit / sources.length)
PerSource(limit, sources) == (limit + Len(sources) - 1) \div Len(sources)

\* sources.includes(s)
Includes(sources, s) == \E i \in 1..Len(sources) : sources[i] = s

\* a source promise without its .catch: a failure stays a rejection
Caught_NoCatch(outcome) ==
  IF outcome.state = "failed"
  THEN [kind |-> "rejected", results |-> <<>>]
  ELSE [kind |-> "array", results |-> outcome.list]

\* .catch(err => ({ error: '... failed', results: [] })) on a source promise
Caught(outcome) ==
  IF outcome.state = "failed"
  THEN [kind |-> "errorObject", results |-> <<>>]
  ELSE [kind |-> "array", results |-> outcome.list]

\* searchResults.forEach: arrays are pushed as they are, of other values the
\* .results; the promises were pushed in the order web, local, files
RECURSIVE Combine(_, _)
Combine(settled, order) ==
  IF order = <<>> THEN <<>>
  ELSE (IF Head(order) \in DOMAIN settled
        THEN settled[Head(order)].results ELSE <<>>)
       \o Combine(settled, Tail(order))

\* the file search promise pushed before the local one
DispatchOrder_FilesFirst == <<"web", "files", "local">>

DispatchOrder == <<"web", "local", "files">>

\* the results merged in the order in which the source calls happened to
\* settle, which is any order
MergeOrders_AsSettled ==
  {o \in [1..3 -> Sources] : \A s \in Sources : \E i \in 1..3 : o[i] = s}

\* the results merged in the order in which the caller named the sources
MergeOrders_AsNamed ==
  {o \in MergeOrders_AsSettled :
     \A i \in 1..Len(agg.sources), j \in 1..Len(agg.sources) :
       (i < j /\ agg.sources[i] # agg.sources[j]) =>
         \E m \in 1..3, n \in 1..3 :
           m < n /\ o[m] = agg.sources[i] /\ o[n] = agg.sources[j]}

\* await Promise.all(searchPromises) yields the values in the order of the
\* promises in the array, whatever the order in which they settled
MergeOrders == {DispatchOrder}

\* uniqueResults.some(existing => existing.title === item.title ||
\*   (existing.content && item.content && existing.content === item.content))
\* duplicate test without the guard on empty content
IsDuplicate_NoContentGuard(unique, item) ==
  \E j \in 1..Len(unique) :
    \/ unique[j].title = item.title
    \/ unique[j].content = item.content

IsDuplicate(unique, item) ==
  \E j \in 1..Len(unique) :
    \/ unique[j].title = item.title
    \/ (unique[j].content # "" /\ item.content # ""
        /\ unique[j].content = item.content)

RECURSIVE Dedup(_, _)
Dedup(combined, unique) ==
  IF combined = <<>> THEN unique
  ELSE Dedup(Tail(combined),
             IF IsDuplicate(unique, Head(combined)) THEN unique
             ELSE Append(unique, Head(combined)))

\* the comparator of uniqueResults.sort
Compare(a, b) ==
  IF Truthy(a.score) /\ Truthy(b.score) THEN a.score - b.score
  ELSE IF Truthy(a.matches) /\ Truthy(b.matches) THEN b.matches - a.matches
  ELSE 0

Reverse(s) == [i \in 1..Len(s) |-> s[Len(s) + 1 - i]]

\* Array.prototype.sort of Node 18 on a short array: the leading run is
\* found (and reversed when strictly descending), the other elements are
\* placed by binary insertion
RECURSIVE RunLength(_, _, _)
RunLength(s, i, descending) ==
  IF i > Len(s) THEN i - 1
  ELSE IF descending = (Compare(s[i], s[i - 1]) < 0)
       THEN RunLength(s, i + 1, descending)
       ELSE i - 1

RECURSIVE InsertionPoint(_, _, _, _)
InsertionPoint(s, pivot, left, right) ==
  IF left >= right THEN left
  ELSE LET mid == left + ((right - left) \div 2) IN
       IF Compare(pivot, s[mid + 1]) < 0
       THEN InsertionPoint(s, pivot, left, mid)
       ELSE InsertionPoint(s, pivot, mid + 1, right)

RECURSIVE BinaryInsertionSort(_, _)
BinaryInsertionSort(s, start) ==
  IF start >= Len(s) THEN s
  ELSE LET pivot == s[start + 1]
           at == InsertionPoint(s, pivot, 0, start)
       IN BinaryInsertionSort(
            SubSeq(s, 1, at) \o <<pivot>> \o SubSeq(s, at + 1, start)
              \o SubSeq(s, start + 2, Len(s)),
            start + 1)

ArraySort(s) ==
  IF Len(s) < 2 THEN s
  ELSE LET descending == Compare(s[2], s[1]) < 0
           n == RunLength(s, 3, descending)
           made == IF descending
                   THEN Reverse(SubSeq(s, 1, n)) \o SubSeq(s, n + 1, Len(s))
                   ELSE s
       IN BinaryInsertionSort(made, n)

\* the slice taken one entry too long: uniqueResults.slice(0, limit + 1)
Slice_OneTooMany(s, limit) == SubSeq(s, 1, Min(limit + 1, Len(s)))

\* uniqueResults.slice(0, limit)
Slice(s, limit) == SubSeq(s, 1, Min(limit, Len(s)))

\* the `sources` arrays a caller passes: none, one or two names, or all three
SourceSeqs == UNION {[1..m -> Sources] : m \in 0..2} \cup {DispatchOrder}

\* searchAdvanced is called: one promise per source named in `sources` is
\* started, each with the per-source limit
Dispatch(sources, limit) ==
  /\ agg.pc \in {"idle", "returned", "threw"}
  /\ agg' = [pc |-> "await", sources |-> sources, limit |-> limit,
             calls |-> [s \in {x \in Sources : Includes(sources, x)} |->
                          [state |-> "pending", list |-> <<>>,
                           limit |-> PerSource(limit, sources)]],
             settled |-> <<>>, unique |-> <<>>, result |-> <<>>, nth |-> 1,
             prev |-> NoPrev]
  /\ UNCHANGED <<limiterVars, serverVars>>

\* the caller runs the search that has just returned a second time, with
\* the same query, sources and options
Repeat ==
  /\ agg.pc = "returned"
  /\ agg.nth = 1
  /\ agg' = [agg EXCEPT
               !.pc = "await",
               !.calls = [s \in DOMAIN agg.calls |->
                            [state |-> "pending", list |-> <<>>,
                             limit |-> PerSource(agg.limit, agg.sources)]],
               !.settled = <<>>, !.unique = <<>>, !.result = <<>>,
               !.nth = 2,
               !.prev = [calls |-> agg.calls, result |-> agg.result]]
  /\ UNCHANGED <<limiterVars, serverVars>>

\* the corpus is static between a run and its repetition: in the second run
\* a source call ends as it ended in the first
AsBefore(s, state, list) ==
  agg.nth = 2 =>
    /\ agg.prev.calls[s].state = state
    /\ agg.prev.calls[s].list = list

\* a source call fulfils with its list
SourceReturns(s, list) ==
  /\ agg.pc = "await"
  /\ s \in DOMAIN agg.calls
  /\ agg.calls[s].state = "pending"
  /\ list \in ListsByLimit[s][agg.calls[s].limit]
  /\ AsBefore(s, "ok", list)
  /\ agg' = [agg EXCEPT !.calls[s].state = "ok", !.calls[s].list = list]
  /\ UNCHANGED <<limiterVars, serverVars>>

\* a source call throws (the source is unavailable)
SourceFails(s) ==
  /\ agg.pc = "await"
  /\ s \in DOMAIN agg.calls
  /\ agg.calls[s].state = "pending"
  /\ AsBefore(s, "failed", <<>>)
  /\ agg' = [agg EXCEPT !.calls[s].state = "failed"]
  /\ UNCHANGED <<limiterVars, serverVars>>

\* the I/O of a source call never completes
SourceHangs(s) ==
  /\ agg.pc = "await"
  /\ s \in {"local", "files"}
  /\ s \in DOMAIN agg.calls
  /\ agg.calls[s].state = "pending"
  /\ AsBefore(s, "hung", <<>>)
  /\ agg' = [agg EXCEPT !.calls[s].state = "hung"]
  /\ UNCHANGED <<limiterVars, serverVars>>

\* the merge started without awaiting the source promises: calls that are
\* still pending contribute nothing
Join_NotAwaited ==
  \E order \in MergeOrders :
  LET settled == [s \in DOMAIN agg.calls |-> Caught(agg.calls[s])]
      unique == Dedup(Combine(settled, order), <<>>)
  IN /\ agg.pc = "await"
     /\ agg' = [agg EXCEPT !.pc = "returned", !.settled = settled,
                           !.unique = unique,
                           !.result = Slice(ArraySort(unique), agg.limit)]
     /\ UNCHANGED <<limiterVars, serverVars>>

\* await Promise.all(searchPromises) continues once every promise has
\* fulfilled, or as soon as one has rejected; then combine, deduplicate,
\* sort and slice
Join ==
  \E order \in MergeOrders :
  LET settled == [s \in DOMAIN agg.calls |-> Caught(agg.calls[s])]
      unique == Dedup(Combine(settled, order), <<>>)
  IN /\ agg.pc = "await"
     /\ \A s \in DOMAIN agg.calls : agg.calls[s].state \in {"ok", "failed"}
     /\ agg' = IF \E s \in DOMAIN settled : settled[s].kind = "rejected"
               THEN [agg EXCEPT !.pc = "threw", !.settled = settled]
               ELSE [agg EXCEPT !.pc = "returned", !.settled = settled,
                                !.unique = unique,
                                !.result = Slice(ArraySort(unique), agg.limit)]
     /\ UNCHANGED <<limiterVars, serverVars>>

InitSearch ==
  /\ now = 0
  /\ counters = [t \in Tiers |-> [k \in Keys |-> FreshCounter]]
  /\ res = NoResponse
  /\ run = [t \in Tiers |-> [k \in Keys |-> FreshRun]]
  /\ focus = {"api"}
  /\ reqs = [i \in Slots |-> Idle]
  /\ admitted = [k \in Keys |-> NoneAdmitted]
  /\ agg = NoSearch

NextSearch ==
  \/ \E sources \in SourceSeqs, limit \in 1..MaxLimit : Dispatch(sources, limit)
  \/ \E s \in Sources : \E list \in ListsByLimit[s][MaxLimit] : SourceReturns(s, list)
  \/ \E s \in Sources : SourceFails(s)
  \/ \E s \in Sources : SourceHangs(s)
  \/ Join

SpecSearch == InitSearch /\ [][NextSearch]_vars

\* the aggregated search with callers that run a search twice
NextSearchTwice ==
  \/ NextSearch
  \/ Repeat

SpecSearchTwice == InitSearch /\ [][NextSearchTwice]_vars

\* every step that can be taken is eventually taken
SpecSearchFair == SpecSearch /\ WF_vars(NextSearch)

(***************************************************************************)
(* Properties of the rate limiter                                          *)
(***************************************************************************)
\* the middleware of tier t is called for key k in this step
Called(t, k) ==
  \/ t = "api" /\ rateLimiter(k)
  \/ t = "search" /\ searchRateLimit(k)
  \/ t = "dataModification" /\ dataModificationRateLimit(k)
  \/ t = "import" /\ importRateLimit(k)

\* C1: on a counter that starts fresh, of the calls made within one window
\* the first `capacity` are allowed and call capacity + 1 is rejected; the
\* first call made once the block duration has passed since the rejecting
\* call is allowed and leaves consumed = 1.  For the search tier: 31 calls
\* give 30 allowed and a rejection with retryAfter = 120.
C1_WindowProperty ==
  \A t \in Tiers, k \in Keys :
    LET r == run[t][k]
        last == res.mw = t /\ res.key = k
    IN /\ r.active => r.allowed = Min(r.n, Points[t])
       /\ (r.active /\ last /\ r.n <= Points[t])
            => res.nextCalls = 1 /\ res.status = 0
       /\ (r.active /\ last /\ r.n = Points[t] + 1)
            => res.nextCalls = 0 /\ res.status = 429
       /\ (r.afterBlock /\ last)
            => res.nextCalls = 1 /\ counters[t][k].consumed = 1
       /\ (t = "search" /\ r.active /\ r.n = 31)
            => r.allowed = 30 /\ (last => res.status = 429 /\ res.retryAfter = 120)

\* C1 witness: 31 search calls were made within 10 seconds and the 31st was
\* rejected
C1_Witness_Rejected31 ==
  /\ run["search"]["k1"].active
  /\ run["search"]["k1"].n = 31
  /\ now = counters["search"]["k1"].windowStart + 10
  /\ res.mw = "search" /\ res.status = 429

\* the first search call after the block ran out was allowed
C1_Witness ==
  /\ run["search"]["k1"].afterBlock
  /\ res.mw = "search" /\ res.nextCalls = 1
  /\ counters["search"]["k1"].consumed = 1

\* C2: a counter that is not blocked has consumed at most the capacity of
\* its tier in its current window (a window that has elapsed counts as
\* reset, as step 1 of Consume treats it)
C2_ConsumedWithinCapacity ==
  \A t \in Tiers, k \in Keys :
    LET c == CurrentWindow(counters[t][k], t, now) IN
    ~IsBlocked(c, now) => c.consumed <= Points[t]

\* C2 witness: a block that was set has run out
C2_Witness ==
  \E t \in Tiers, k \in Keys :
    /\ counters[t][k].blockedUntil # NoTime
    /\ now >= counters[t][k].blockedUntil

\* C3: a call on a blocked counter (now < blockedUntil) is rejected and the
\* rejection carries retryAfter = blockedUntil - now
C3_BlockedRejects ==
  [][\A t \in Tiers, k \in Keys :
       (Called(t, k) /\ IsBlocked(counters[t][k], now))
         => /\ res'.nextCalls = 0
            /\ res'.status = 429
            /\ res'.retryAfter = counters[t][k].blockedUntil - now]_vars

\* C3 witness: a call was rejected part way through a block
C3_Witness ==
  \E t \in Tiers :
    /\ res.mw = t /\ res.status = 429
    /\ res.retryAfter > 0 /\ res.retryAfter < BlockDuration[t]

\* C4: with concurrent requests of one key the number of requests admitted
\* in a window never exceeds the capacity and every admission is counted in
\* consumed; the block is set by the first request over the capacity
C4_SerializedCounter ==
  \A k \in Keys :
    LET c == counters["api"][k]
        a == admitted[k]
    IN /\ a.n <= Points["api"]
       /\ a.windowStart = c.windowStart => a.n = Min(c.consumed, Points["api"])
       /\ c.consumed > Points["api"] => c.blockedUntil # NoTime

\* C4 witness: two requests of one key are in flight past the limiter while
\* the window is used up
C4_Witness ==
  /\ reqs[1].pc = "routed" /\ reqs[2].pc = "routed"
  /\ reqs[1].key = reqs[2].key
  /\ admitted[reqs[1].key].n = Points["api"]

\* the limiter tier the specification assigns to a route group
TierOfRoute ==
  [search |-> {"search"}, dataMutation |-> {"dataModification"},
   import |-> {"import"}, read |-> {}]

\* C5: a request that reached its search or data service has consumed a
\* point of the tier of its route
C5_TierPerRoute ==
  \A i \in Slots :
    (reqs[i].pc = "done" /\ reqs[i].status = 200)
      => TierOfRoute[reqs[i].route] \subseteq reqs[i].consumed

\* the outcome of a middleware call of tier t, from the state before it
Outcome(t, k) ==
  LET rl == Consume(counters[t][k], t, now, 1) IN
  IF rl.allowed
  THEN /\ res'.nextCalls = 1
       /\ res'.status = 0 /\ res'.headers = {} /\ res'.body = {}
  ELSE /\ res'.nextCalls = 0
       /\ res'.status = 429
       /\ res'.headers = {"Retry-After", "X-RateLimit-Limit",
                          "X-RateLimit-Remaining", "X-RateLimit-Reset"}
       /\ res'.limit = Points[t]
       /\ res'.retryAfterHeader >= 1
       /\ res'.body = {"success", "error", "message", "retryAfter"}
       /\ res'.success = FALSE

\* C6: a middleware call either calls next() once and writes nothing (the
\* Consume was allowed) or answers 429 with the four headers, the capacity
\* of its tier as X-RateLimit-Limit and the error body, and never calls
\* next() (the Consume was rejected)
C6_NextOr429 ==
  [][\A t \in Tiers, k \in Keys : Called(t, k) => Outcome(t, k)]_vars

\* C6 witness: the data-modification middleware answered 429
C6_Witness ==
  /\ res.mw = "dataModification" /\ res.status = 429
  /\ res.limit = 10 /\ res.nextCalls = 0

(***************************************************************************)
(* Properties of the aggregated search                                     *)
(***************************************************************************)
Range(s) == {s[i] : i \in 1..Len(s)}

FailedSources == {s \in DOMAIN agg.calls : agg.calls[s].state = "failed"}

\* what every source call would have delivered had the failed ones returned
\* an empty list
AsIfEmpty ==
  [s \in DOMAIN agg.calls |->
     [kind |-> "array",
      results |-> IF s \in FailedSources THEN <<>> ELSE agg.calls[s].list]]

\* C7: whatever sources fail, searchAdvanced does not throw and returns the
\* list it would return had each failed source returned an empty list: only
\* results of the sources that succeeded, and an empty list when all failed
C7_FailureIsolation ==
  /\ agg.pc # "threw"
  /\ agg.pc = "returned" =>
       /\ agg.result =
            Slice(ArraySort(Dedup(Combine(AsIfEmpty, DispatchOrder), <<>>)),
                  agg.limit)
       /\ \A e \in Range(agg.result) :
            \E s \in DOMAIN agg.calls \ FailedSources :
              e \in Range(agg.calls[s].list)
       /\ FailedSources = DOMAIN agg.calls => agg.result = <<>>

\* C7 witness: of two requested sources one failed and the results of the
\* other were returned
C7_Witness ==
  /\ agg.pc = "returned"
  /\ Cardinality(DOMAIN agg.calls) = 2
  /\ Cardinality(FailedSources) = 1
  /\ \E s \in DOMAIN agg.calls \ FailedSources :
       agg.calls[s].list # <<>> /\ agg.result = agg.calls[s].list

\* C8: an aggregated search that was started always returns, also when a
\* source call never settles
C8_AlwaysReturns == (agg.pc = "await") ~> (agg.pc = "returned")

\* two results differ in title and in content (or one has no content)
Differ(x, y) ==
  /\ x.title # y.title
  /\ (x.content # y.content \/ x.content = "" \/ y.content = "")

\* C9: no two returned entries have the same title; and deduplication drops
\* a result only for an earlier result that does not differ from it in
\* title and content
C9_Deduplication ==
  agg.pc = "returned" =>
    LET combined == Combine(agg.settled, DispatchOrder) IN
    /\ \A i, j \in 1..Len(agg.result) :
         i # j => agg.result[i].title # agg.result[j].title
    /\ \A j \in 1..Len(combined) :
         \/ combined[j] \in Range(agg.unique)
         \/ \E i \in 1..j - 1 : ~Differ(combined[i], combined[j])

\* C9 witness: results of two sources had the same title and were collapsed,
\* next to results that differ and were both kept
C9_Witness ==
  /\ agg.pc = "returned"
  /\ \E s1, s2 \in DOMAIN agg.calls :
       /\ s1 # s2
       /\ \E x \in Range(agg.calls[s1].list), y \in Range(agg.calls[s2].list) :
            x.title = y.title
  /\ Len(agg.unique) < Len(Combine(agg.settled, DispatchOrder))
  /\ \E x, y \in Range(agg.unique) : x.src # y.src /\ Differ(x, y)

\* C10: in the returned list every entry with a score comes before every
\* entry that has a match count only
C10_ScoredBeforeCounted ==
  agg.pc = "returned" =>
    \A i, j \in 1..Len(agg.result) :
      (agg.result[i].score # Absent /\ agg.result[j].score = Absent
       /\ agg.result[j].matches # Absent) => i < j

\* C10 witness: the returned list holds scored and counted entries
C10_Witness ==
  /\ agg.pc = "returned"
  /\ \E i, j \in 1..Len(agg.result) :
       /\ agg.result[i].score # Absent
       /\ agg.result[j].score = Absent /\ agg.result[j].matches # Absent
  /\ Len(agg.sources) = 3

\* C11: in the returned list any two entries that both carry a score are in
\* ascending score order, and any two entries that both carry a match count
\* only are in descending order of the count
C11_RankedOrder ==
  agg.pc = "returned" =>
    \A i, j \in 1..Len(agg.result) :
      i < j =>
        /\ (agg.result[i].score # Absent /\ agg.result[j].score # Absent)
             => agg.result[i].score <= agg.result[j].score
        /\ (agg.result[i].score = Absent /\ agg.result[j].score = Absent
            /\ agg.result[i].matches # Absent /\ agg.result[j].matches # Absent)
             => agg.result[i].matches >= agg.result[j].matches

\* an entry carries a ranking signal: a score or a match count
Ranked(e) == e.score # Absent \/ e.matches # Absent

\* C12: in the returned list every entry that carries neither a score nor a
\* match count comes after every entry that carries one of them
C12_UnrankedLast ==
  agg.pc = "returned" =>
    \A i, j \in 1..Len(agg.result) :
      (Ranked(agg.result[i]) /\ ~Ranked(agg.result[j])) => i < j

\* C13: a call of searchAdvanced with an empty `sources` array ends with a
\* thrown error and does not return a result list
C13_NoSourcesIsError ==
  (agg.pc \in {"returned", "threw"} /\ agg.sources = <<>>) => agg.pc = "threw"

\* C14: a second run of searchAdvanced with the same query, sources, limit
\* and options, in which every source returns what it returned in the first
\* run, returns the same list as the first run: same members, same order
C14_Deterministic ==
  (agg.pc = "returned" /\ agg.nth = 2) => agg.result = agg.prev.result

\* C14 witness: the second run has returned, as the first with the results
\* of all three sources, the sort having reordered the merged list
C14_Witness ==
  /\ agg.pc = "returned" /\ agg.nth = 2
  /\ \A s \in Sources : \E x \in Range(agg.result) : x.src = s
  /\ agg.result = agg.prev.result
  /\ agg.result # agg.unique

\* C15: searchAdvanced has merged and returned only when every source call
\* it dispatched has settled, with results or with a failure
C15_ReturnsAfterAllSettled ==
  agg.pc \in {"returned", "threw"} =>
    /\ \A s \in Sources : Includes(agg.sources, s) => s \in DOMAIN agg.calls
    /\ \A s \in DOMAIN agg.calls : agg.calls[s].state \in {"ok", "failed"}
    /\ \A s \in DOMAIN agg.calls :
         agg.settled[s].results =
           IF agg.calls[s].state = "ok" THEN agg.calls[s].list ELSE <<>>

\* C15 witness: three calls were dispatched; the search has returned after
\* one of them failed and the others delivered results
C15_Witness ==
  /\ agg.pc = "returned"
  /\ DOMAIN agg.calls = Sources
  /\ \E s \in Sources : agg.calls[s].state = "failed"
  /\ \E s \in Sources : agg.calls[s].state = "ok" /\ agg.calls[s].list # <<>>

\* the least whole number of results per source with which k sources reach
\* the limit: ceil(limit / k)
FairShare(limit, k) ==
  CHOOSE n \in 0..limit : n * k >= limit /\ (n - 1) * k < limit

\* the results in a list that come from source s
From(list, s) == {i \in 1..Len(list) : list[i].src = s}

\* C16: when the requested sources are a non-empty set (no name twice),
\* every dispatched source call is given the cap ceil(limit / |sources|),
\* returns no more than that, and no more than that many results of one
\* source are in the merged list
C16_FairShare ==
  (agg.pc # "idle" /\ agg.sources # <<>>
   /\ Cardinality(Range(agg.sources)) = Len(agg.sources)) =>
    LET cap == FairShare(agg.limit, Len(agg.sources)) IN
    /\ DOMAIN agg.calls = Range(agg.sources)
    /\ \A s \in DOMAIN agg.calls :
         /\ agg.calls[s].limit = cap
         /\ Len(agg.calls[s].list) <= cap
         /\ agg.pc = "returned" =>
              Cardinality(From(Combine(agg.settled, DispatchOrder), s)) <= cap

\* C16 witness: a search over two sources with limit 3 has returned; each
\* call was given the cap 2 and one source delivered as many results
C16_Witness ==
  /\ agg.pc = "returned"
  /\ Len(agg.sources) = 2 /\ Cardinality(DOMAIN agg.calls) = 2
  /\ agg.limit = 3
  /\ \A s \in DOMAIN agg.calls : agg.calls[s].limit = 2
  /\ \E s \in DOMAIN agg.calls :
       Cardinality(From(Combine(agg.settled, DispatchOrder), s)) = 2

\* C17: the returned list has at most `limit` entries, and it is the
\* deduplicated list after the sort, cut after its first `limit` entries
C17_Truncated ==
  agg.pc = "returned" =>
    LET sorted == ArraySort(agg.unique) IN
    /\ Len(agg.result) <= agg.limit
    /\ Len(agg.result) = Min(agg.limit, Len(sorted))
    /\ \A i \in 1..Len(agg.result) : agg.result[i] = sorted[i]

\* C17 witness: the deduplicated list was longer than the limit and the
\* returned list is cut to the limit
C17_Witness ==
  /\ agg.pc = "returned"
  /\ Len(agg.unique) > agg.limit
  /\ Len(agg.result) = agg.limit
  /\ agg.limit >= 2

(***************************************************************************)
(* Properties of the health check and of the counters of several callers   *)
(***************************************************************************)
\* C18: a call of rateLimiterHealthCheck leaves the counter of every caller
\* on every tier as it is (consumed, window start, block), and it reports
\* 'healthy' whatever the callers have consumed
C18_ProbeFrame ==
  [][res'.mw = "rateLimiterHealthCheck" =>
       /\ \A t \in Tiers, k \in Keys : counters'[t][k] = counters[t][k]
       /\ res'.success]_vars

\* C18 witness: the health check has answered while the caller is blocked
\* on the api limiter
C18_Witness ==
  /\ res.mw = "rateLimiterHealthCheck" /\ res.success
  /\ IsBlocked(counters["api"]["k1"], now)
  /\ counters["api"]["k1"].consumed = 101
  /\ counters["api"][HealthKey] =
       [consumed |-> 0, windowStart |-> now, blockedUntil |-> NoTime]

\* C19: a middleware call on the counter of (t, k), allowed or rejected,
\* leaves the counter of every other pair of tier and key as it is, and
\* whether it is allowed depends on the counter of (t, k) alone: a block in
\* another tier or the consumption of another caller never rejects it
C19_IndependentCounters ==
  [][\A t \in Tiers, k \in Callers :
       Called(t, k) =>
         /\ \A t2 \in Tiers, k2 \in Callers :
              <<t2, k2>> # <<t, k>> => counters'[t2][k2] = counters[t2][k2]
         /\ (res'.nextCalls = 1) = Consume(counters[t][k], t, now, 1).allowed
         /\ (res'.status = 429) = ~Consume(counters[t][k], t, now, 1).allowed]_vars

\* C19 witness: an import call of caller k1 has passed while k1 is blocked
\* on the data-modification limiter and caller k2 is blocked on the import
\* limiter
C19_Witness ==
  /\ res.mw = "import" /\ res.key = "k1" /\ res.nextCalls = 1
  /\ counters["import"]["k1"].consumed = 1
  /\ IsBlocked(counters["dataModification"]["k1"], now)
  /\ IsBlocked(counters["import"]["k2"], now)

(***************************************************************************)
(* Properties of the search router                                         *)
(***************************************************************************)
\* the query is missing, not a string, empty after trimming or longer than
\* 500 characters
Invalid(q) ==
  \/ q.kind = "undefined"
  \/ q.kind # "string"
  \/ q.body = 0
  \/ q.lead + q.body + q.trail > 500

\* C20: a POST search request with an invalid query is answered 400 and no
\* service function is called for it; for every other request the service
\* function of the route is called with the query without the white space
\* at its ends
C20_ValidatedBeforeSearch ==
  \A i \in Slots :
    LET r == reqs[i] IN
    /\ (r.pc \in {"handler", "done"} /\ Invalid(r.sent))
         => r.pc = "done" /\ r.status = 400 /\ r.service = NoCall
    /\ (r.pc = "done" /\ ~Invalid(r.sent))
         => /\ r.status \in {200, 500}
            /\ r.service = [fn |-> ServiceOf[r.route],
                            query |-> Str(0, r.sent.body, 0)]

\* C20 witness: a query of 501 characters with its white space was refused
\* without a search, and a query with white space at both ends reached
\* searchAdvanced trimmed
C20_Witness ==
  \E i, j \in Slots :
    /\ reqs[i].pc = "done" /\ reqs[i].sent = Str(1, 499, 1)
    /\ reqs[i].status = 400 /\ reqs[i].service = NoCall
    /\ reqs[j].pc = "done" /\ reqs[j].sent = Str(1, 1, 1)
    /\ reqs[j].service = [fn |-> "searchAdvanced", query |-> Str(0, 1, 0)]

(***************************************************************************)
(* Properties of the local search                                          *)
(***************************************************************************)
\* C21: for one query, store and limit, every result searchLocal returns
\* with threshold t1 is also returned with any threshold t2 >= t1
C21_ThresholdMonotone ==
  agg.pc = "loaded" =>
    \A t1, t2 \in 0..MaxScore :
      (t1 <= t2 /\ agg.found[t1] # NotRun /\ agg.found[t2] # NotRun)
        => \A i \in 1..Len(agg.found[t1]) :
             \E j \in 1..Len(agg.found[t2]) :
               agg.found[t2][j] = agg.found[t1][i]

\* C21 witness: the search with the higher threshold matched more records
\* than the limit lets through, and kept the results of the lower one
C21_Witness ==
  /\ agg.pc = "loaded"
  /\ agg.limit = 2
  /\ \E t1, t2 \in 0..MaxScore :
       /\ t1 < t2
       /\ agg.found[t1] # NotRun /\ agg.found[t2] # NotRun
       /\ Len(agg.found[t1]) = 2
       /\ Cardinality(Hits(agg.corpus, t2)) = 3
       /\ Cardinality(Hits(agg.corpus, t1)) = 2

(***************************************************************************)
(* Properties of the file search                                           *)
(***************************************************************************)
\* an entry the walk can come to: it lies in the search path itself or in
\* a directory that can be listed
InWalk(e) == Parent[e] = Root \/ agg.listable

\* C22: a search that was not cut short by the limit has visited every
\* entry the walk can come to, whatever could not be listed, read or
\* inspected; a file with a matching name that cannot be read or inspected
\* is in the results with 0 matches and the placeholder snippet
C22_UnreadableSkipped ==
  (agg.pc = "returned" /\ Len(agg.results) < agg.limit) =>
    /\ \A e \in Files \cup Dirs : InWalk(e) => e \in Range(agg.examined)
    /\ \A f \in Files :
         (InWalk(f) /\ agg.kinds[f].name /\ ~agg.kinds[f].readable) =>
           \E i \in 1..Len(agg.results) :
             /\ agg.results[i].title = f
             /\ agg.results[i].matches = 0
             /\ agg.results[i].snippet = "placeholder"

(* C23: the list searchFiles returns is in descending order of
   matchCount + (10 if the file name contains the query, else 0), and every
   returned file has a name containing the query or a matchCount above 0. *)
C23_SortedByRelevance ==
  agg.pc = "returned" =>
    LET score(x) == x.matches + (IF x.name THEN 10 ELSE 0)
    IN  /\ \A i \in 1..Len(agg.returned), j \in 1..Len(agg.returned) :
             i < j => score(agg.returned[i]) >= score(agg.returned[j])
        /\ \A i \in 1..Len(agg.returned) :
             agg.returned[i].name \/ agg.returned[i].matches > 0

(* A search returned a content-only match and a name match that was collected
   after it: the sort had to move the name match to the front. *)
C23_Witness ==
  /\ agg.pc = "returned"
  /\ Len(agg.returned) >= 2
  /\ \E i \in 1..Len(agg.results), j \in 1..Len(agg.results) :
       /\ i < j
       /\ ~agg.results[i].name /\ agg.results[i].matches = 2
       /\ agg.results[j].name /\ agg.results[j].matches = 0
       /\ agg.returned[1].name

(* The files in the order in which the walk comes to them. *)
WalkOrder == <<"f1", "f2", "f3", "f4">>

(* The files of the walk that match the query by name or by content, in walk
   order. *)
Matching ==
  LET matches(f) == InWalk(f) /\ Included(agg.kinds[f])
  IN  SelectSeq(WalkOrder, matches)

(* C24: for limit >= 1 the collected results never exceed `limit`, no entry
   is examined once `limit` results are collected, and the returned files are
   the first `limit` matching files in walk order. *)
C24_FirstMatchesInWalkOrder ==
  /\ agg.pc # "idle" =>
       /\ Len(agg.results) <= agg.limit
       /\ ~agg.late
  /\ agg.pc = "returned" =>
       {agg.returned[i].title : i \in 1..Len(agg.returned)}
         = Range(FirstOf(Matching, agg.limit))

(***************************************************************************)
(* Properties of GET /suggestions                                          *)
(***************************************************************************)

(* C25: a GET /search/suggestions request whose q is missing or is a string
   of fewer than 2 characters is answered 200 with an empty list of
   suggestions, and no search source is invoked for it. *)
C25_ShortQueryNoSource ==
  \A i \in Slots :
    LET q == reqs[i].q IN
    (reqs[i].pc \in {"handler", "done"}
       /\ (q.kind = "undefined" \/ (q.kind = "string" /\ q.len < 2))) =>
      /\ reqs[i].service.fn = "none"
      /\ reqs[i].pc = "done" => (reqs[i].status = 200 /\ reqs[i].suggestions = 0)

(* A request with a q of one character was answered while another request,
   with a q of two characters, went on to searchLocal. *)
C25_Witness ==
  \E i \in Slots, j \in Slots :
    /\ reqs[i].pc = "done" /\ reqs[i].q = Param("string", 1)
    /\ reqs[i].status = 200 /\ reqs[i].service.fn = "none"
    /\ reqs[j].pc = "done" /\ reqs[j].q = Param("string", 2)
    /\ reqs[j].service.fn = "searchLocal"

(***************************************************************************)
(* Further properties of the limiter                                       *)
(***************************************************************************)

(* C26: a call rejected while the counter is blocked leaves blockedUntil as
   it is; blockedUntil is set only by the first consumption that exceeds the
   capacity, to the time of that call plus the block duration of the tier,
   and the first call made once that time has come is let through, however
   many calls were rejected in between. *)
C26_BlockNotExtended ==
  [][\A t \in Tiers, k \in Keys :
       Called(t, k) =>
         LET c == counters[t][k]
             d == counters'[t][k]
         IN /\ IsBlocked(c, now) =>
                 d.blockedUntil = c.blockedUntil /\ res'.status = 429
            /\ d.blockedUntil # c.blockedUntil =>
                 /\ ~IsBlocked(c, now)
                 /\ CurrentWindow(c, t, now).consumed = Points[t]
                 /\ d.blockedUntil = now + BlockDuration[t]
            /\ run'[t][k].rejectAt # NoTime =>
                 d.blockedUntil = run'[t][k].rejectAt + BlockDuration[t]
            /\ run'[t][k].afterBlock => res'.nextCalls = 1]_vars

(* A call was rejected later than the call that set the block, and the block
   still ends one block duration after that first rejection. *)
C26_Witness ==
  \E t \in Tiers, k \in Keys :
    /\ res.mw = t /\ res.key = k /\ res.status = 429
    /\ run[t][k].rejectAt # NoTime
    /\ now > run[t][k].rejectAt
    /\ now < counters[t][k].blockedUntil
    /\ counters[t][k].blockedUntil = run[t][k].rejectAt + BlockDuration[t]

(* C27: for every tier and key, the calls let through within any interval of
   length windowDuration number at most twice the capacity of the tier. *)
C27_TwiceCapacity ==
  \A t \in focus, k \in Keys :
    admitted[k][1] + admitted[k][2] + admitted[k][3] <= 2 * Points[t]

(* Twice the capacity was let through within one interval of length
   windowDuration: a full window at its start and a full window at its end. *)
C27_Witness ==
  \E t \in focus, k \in Keys :
    /\ admitted[k][1] = Points[t]
    /\ admitted[k][3] = Points[t]
    /\ counters[t][k].windowStart = now

(***************************************************************************)
(* Further properties of the aggregated search                             *)
(***************************************************************************)

(* C28: the list searchAdvanced returns is a function of the set of sources
   named, the limit and what each source call delivered: the results are
   merged in the order web, local, files, whatever the order in which the
   calls settled and whatever the order of the names in `sources`, and then
   deduplicated, sorted and cut. *)
C28_FixedMergeOrder ==
  agg.pc = "returned" =>
    LET got(s) == IF s \in DOMAIN agg.calls /\ agg.calls[s].state = "ok"
                  THEN agg.calls[s].list ELSE <<>>
        merged == got("web") \o got("local") \o got("files")
    IN /\ DOMAIN agg.calls = Range(agg.sources)
       /\ agg.unique = Dedup(merged, <<>>)
       /\ agg.result = Slice(ArraySort(Dedup(merged, <<>>)), agg.limit)

(* A search whose caller named the file search before the local search has
   returned, both calls having delivered results, with the local results
   merged first. *)
C28_Witness ==
  /\ agg.pc = "returned"
  /\ agg.sources = <<"files", "local">>
  /\ agg.calls["files"].state = "ok" /\ agg.calls["files"].list # <<>>
  /\ agg.calls["local"].state = "ok" /\ agg.calls["local"].list # <<>>
  /\ Len(agg.unique) >= 2
  /\ agg.unique[1].src = "local"
  /\ agg.unique[Len(agg.unique)].src = "files"

(* C29: getRateLimitStatus reports as limit the capacity of the selected
   tier and as remaining the points the key has left in the current window:
   the capacity when the key has no counter, capacity - consumed otherwise,
   and 0 once the capacity is used up or the key is blocked. *)
C29_StatusRemaining ==
  agg # NoStatus =>
    LET c == counters[agg.tier][agg.key]
        w == CurrentWindow(c, agg.tier, now)
    IN /\ agg.limit = Points[agg.tier]
       /\ agg.remaining = IF IsBlocked(c, now) \/ w.consumed >= Points[agg.tier]
                          THEN 0
                          ELSE Points[agg.tier] - w.consumed

(***************************************************************************)
(* Properties of the import                                                *)
(***************************************************************************)

(* C30: the imported count POST /import reports equals the number of entries
   that were inserted into the record store, also when inserts fail inside
   bulkInsertData. *)
C30_ImportedIsInserted ==
  (agg.pc = "answered" /\ agg.status = 200) =>
    agg.reported.imported = agg.stored

====
